---- MODULE Spec2Model ----
(***************************************************************************)
(* Step-size strategies of pyrl/agents/stepsizes.py and the composed agent *)
(* genAdaptiveAgent builds from one of them and a base agent.              *)
(*                                                                         *)
(* Numbers.  A numpy float is modelled by an exact value n/d * sqrt(s)     *)
(* (s square-free) or by one of the IEEE specials +Inf, -Inf, NaN, encoded *)
(* with d = 0.  Arithmetic follows IEEE/numpy for the specials (x/0, Inf-  *)
(* Inf, NaN propagation, comparisons with NaN false); rounding, overflow   *)
(* to Inf of finite results and the sign of zero are not modelled.         *)
(***************************************************************************)
EXTENDS Integers, Sequences, FiniteSets, TLC

----------------------------------------------------------------------------
(* Exact arithmetic with IEEE special values                               *)

IAbs(i) == IF i < 0 THEN -i ELSE i

ISign(i) == IF i < 0 THEN -1 ELSE IF i = 0 THEN 0 ELSE 1

RECURSIVE Gcd(_, _)
Gcd(a, b) == IF b = 0 THEN a ELSE Gcd(b, a % b)

NaN == [n |-> 0, d |-> 0, s |-> 1]

PInf == [n |-> 1, d |-> 0, s |-> 1]

NInf == [n |-> -1, d |-> 0, s |-> 1]

\* The value with no representation n/d*sqrt(s): evaluating it is an error.
Unrepresentable == CHOOSE x \in {} : TRUE

\* n/d * sqrt(s) in lowest terms, d > 0, s square-free.
Surd(n, d, s) ==
    IF n = 0 THEN [n |-> 0, d |-> 1, s |-> 1]
    ELSE LET g == Gcd(IAbs(n), d) IN [n |-> n \div g, d |-> d \div g, s |-> s]

Rat(n, d) == Surd(n, d, 1)

Int2F(i) == Rat(i, 1)

Zero == Rat(0, 1)

One == Rat(1, 1)

IsNaN(x) == x.d = 0 /\ x.n = 0

IsInf(x) == x.d = 0 /\ x.n # 0

IsFinite(x) == x.d # 0

IsZero(x) == x.d # 0 /\ x.n = 0

FSign(x) == ISign(x.n)

InfOf(sign) == IF sign < 0 THEN NInf ELSE PInf

Neg(x) == [x EXCEPT !.n = -x.n]

FAbs(x) == [x EXCEPT !.n = IAbs(x.n)]

Mul(x, y) ==
    IF IsNaN(x) \/ IsNaN(y) THEN NaN
    ELSE IF IsInf(x) \/ IsInf(y)
         THEN IF IsZero(x) \/ IsZero(y) THEN NaN ELSE InfOf(FSign(x) * FSign(y))
    ELSE IF x.n = 0 \/ y.n = 0 THEN Zero
    ELSE LET g  == Gcd(x.s, y.s)
             g1 == Gcd(IAbs(x.n), y.d)
             g2 == Gcd(IAbs(y.n), x.d)
             n0 == (x.n \div g1) * (y.n \div g2)
             d0 == (x.d \div g2) * (y.d \div g1)
         IN  Surd(n0 * g, d0, (x.s \div g) * (y.s \div g))

\* 1/x for a finite x # 0:  1/(n/d*sqrt(s)) = d/(n*s) * sqrt(s).
Recip(x) == Surd(ISign(x.n) * x.d, IAbs(x.n) * x.s, x.s)

Div(x, y) ==
    IF IsNaN(x) \/ IsNaN(y) THEN NaN
    ELSE IF IsInf(y) THEN (IF IsInf(x) THEN NaN ELSE Zero)
    ELSE IF IsZero(y) THEN (IF IsZero(x) THEN NaN ELSE InfOf(FSign(x)))
    ELSE IF IsInf(x) THEN InfOf(FSign(x) * FSign(y))
    ELSE Mul(x, Recip(y))

Add(x, y) ==
    IF IsNaN(x) \/ IsNaN(y) THEN NaN
    ELSE IF IsInf(x) THEN (IF IsInf(y) /\ x.n # y.n THEN NaN ELSE x)
    ELSE IF IsInf(y) THEN y
    ELSE IF x.n = 0 THEN y
    ELSE IF y.n = 0 THEN x
    ELSE IF x.s = y.s
         THEN LET g == Gcd(x.d, y.d)
              IN  Surd(x.n * (y.d \div g) + y.n * (x.d \div g), (x.d \div g) * y.d, x.s)
    ELSE Unrepresentable

Sub(x, y) == Add(x, Neg(y))

\* a/b < c/d for b, d > 0, by comparing the integer parts and then the
\* reciprocals of the fractional parts: no product is formed.
RECURSIVE RatLess(_, _, _, _)
RatLess(a, b, c, d) ==
    IF a \div b # c \div d THEN a \div b < c \div d
    ELSE IF a % b = 0 THEN c % d > 0
    ELSE IF c % d = 0 THEN FALSE
    ELSE RatLess(d, c % d, b, a % b)

\* x < y; false when either is NaN.
Less(x, y) ==
    IF IsNaN(x) \/ IsNaN(y) THEN FALSE
    ELSE IF IsInf(x) THEN x.n < 0 /\ ~(IsInf(y) /\ y.n < 0)
    ELSE IF IsInf(y) THEN y.n > 0
    ELSE IF x.s = y.s THEN RatLess(x.n, x.d, y.n, y.d)
    ELSE IF FSign(x) # FSign(y) THEN FSign(x) < FSign(y)
    ELSE IF FSign(x) > 0
         THEN x.n * x.n * x.s * y.d * y.d < y.n * y.n * y.s * x.d * x.d
    ELSE x.n * x.n * x.s * y.d * y.d > y.n * y.n * y.s * x.d * x.d

Leq(x, y) == ~IsNaN(x) /\ ~IsNaN(y) /\ ~Less(y, x)

\* The integer square root of m >= 0, by bisection on lo <= r < hi.
RECURSIVE ISqrt(_, _, _)
ISqrt(m, lo, hi) ==
    IF hi - lo <= 1 THEN lo
    ELSE LET mid == (lo + hi) \div 2
         IN  IF mid * mid <= m THEN ISqrt(m, mid, hi) ELSE ISqrt(m, lo, mid)

\* The largest k with k*k dividing m, for m > 0.
SquarePart(m) ==
    LET r == ISqrt(m, 0, 46341)
        K == {k \in 1..r : m % (k * k) = 0}
    IN  IF r * r = m THEN r ELSE CHOOSE k \in K : \A j \in K : j <= k

\* numpy.sqrt: NaN below zero, exact n/d*sqrt(s) otherwise.
Sqrt(x) ==
    IF IsNaN(x) THEN NaN
    ELSE IF IsInf(x) THEN (IF x.n > 0 THEN PInf ELSE NaN)
    ELSE IF x.n < 0 THEN NaN
    ELSE IF x.n = 0 THEN Zero
    ELSE IF x.s # 1 THEN Unrepresentable
    ELSE LET kn == SquarePart(x.n)
             kd == SquarePart(x.d)
             sn == x.n \div (kn * kn)
             sd == x.d \div (kd * kd)
         IN  Surd(kn, kd * sd, sn * sd)

\* numpy.min / numpy.max of two values: NaN propagates.
FMin(x, y) == IF IsNaN(x) \/ IsNaN(y) THEN NaN ELSE IF Less(y, x) THEN y ELSE x

FMax(x, y) == IF IsNaN(x) \/ IsNaN(y) THEN NaN ELSE IF Less(x, y) THEN y ELSE x

\* ndarray.clip(lo, hi) on one component.
Clip(x, lo, hi) == FMin(FMax(x, lo), hi)

\* numpy.exp, by the rational 1 + z + z^2/2: exact at 0, positive everywhere,
\* increasing on z >= -1; Inf and NaN as IEEE gives them.
Exp(z) ==
    IF IsNaN(z) THEN NaN
    ELSE IF IsInf(z) THEN (IF z.n > 0 THEN PInf ELSE Zero)
    ELSE Add(One, Add(z, Div(Mul(z, z), Int2F(2))))

----------------------------------------------------------------------------
(* numpy arrays of shape (n,): sequences of values                         *)

Full(n, x) == [i \in 1..n |-> x]

Ones(n) == Full(n, One)

Zeros(n) == Full(n, Zero)

VScale(c, v) == [i \in 1..Len(v) |-> Mul(c, v[i])]

VMul(u, v) == [i \in 1..Len(u) |-> Mul(u[i], v[i])]

VDiv(u, v) == [i \in 1..Len(u) |-> Div(u[i], v[i])]

VAdd(u, v) == [i \in 1..Len(u) |-> Add(u[i], v[i])]

VSub(u, v) == [i \in 1..Len(u) |-> Sub(u[i], v[i])]

VSq(v) == VMul(v, v)

VAbs(v) == [i \in 1..Len(v) |-> FAbs(v[i])]

RECURSIVE Sum(_, _)
Sum(v, k) == IF k = 0 THEN Zero ELSE Add(Sum(v, k - 1), v[k])

\* numpy.dot of two 1-d arrays.
Dot(u, v) == Sum(VMul(u, v), Len(u))

\* numpy.linalg.norm of a raveled array; sqrt(x*x) = |x| on one component.
Norm(v) == IF Len(v) = 1 THEN FAbs(v[1]) ELSE Sqrt(Dot(v, v))

\* A Python dict / attribute assignment: f[k] = x.
Put(f, k, x) == [a \in (DOMAIN f) \cup {k} |-> IF a = k THEN x ELSE f[a]]

\* dict.setdefault(k, x): the dict afterwards, and the value returned.
SetDefault(f, k, x) == IF k \in DOMAIN f THEN f ELSE Put(f, k, x)

\* dict.get(k, x) after setdefault(k, x).
GetDefault(f, k, x) == IF k \in DOMAIN f THEN f[k] ELSE x

None == "None"

----------------------------------------------------------------------------
(* The step-size classes.  obj is the composed object's attribute          *)
(* dictionary (self.__dict__): the base agent's attributes alpha, gamma,   *)
(* params, weights, traces and the strategy's own live side by side in it. *)
(* init_stepsize is called as init_stepsize(weights.shape, self.params),   *)
(* so its params argument is obj.params itself.  init_stepsize returns the *)
(* object afterwards, rescale_update the object afterwards and the array   *)
(* it returns.                                                             *)

\* class AdaptiveStepSize ("Fixed StepSize")
AdaptiveStepSize_init_stepsize(obj, weights_shape) ==
    [step_sizes |-> VScale(obj.alpha, Ones(weights_shape))] @@ obj

\* A fixed strategy that scales step_sizes in place and returns the array.
AdaptiveStepSize_rescale_update_inplace(obj, phi_t, phi_tp, delta, reward, descent_direction) ==
    LET scaled == VMul(obj.step_sizes, descent_direction)
    IN  [self |-> [step_sizes |-> scaled] @@ obj, ret |-> scaled]

AdaptiveStepSize_rescale_update(obj, phi_t, phi_tp, delta, reward, descent_direction) ==
    [self |-> obj, ret |-> VMul(obj.step_sizes, descent_direction)]

\* The inherited randomize_parameters: no parameters.
AdaptiveStepSize_randomize_parameters(obj, args, rnd) ==
    [self |-> obj, ret |-> <<>>]

\* class GHS
GHS_init_stepsize(obj, weights_shape) ==
    LET params == SetDefault(obj.params, "ghs_a", Int2F(10))
    IN  [step_sizes  |-> VScale(obj.alpha, Ones(weights_shape)),
         last_update |-> Zeros(weights_shape),
         params      |-> params,
         ghs_param   |-> params["ghs_a"],
         ghs_counter |-> 1] @@ obj

\* A GHS that divides by a + counter: the harmonic sequence one call ahead.
GHS_rescale_update_ahead(obj, phi_t, phi_tp, delta, reward, descent_direction) ==
    LET step  == Div(Mul(obj.alpha, obj.ghs_param),
                     Add(obj.ghs_param, Int2F(obj.ghs_counter)))
        sizes == Full(Len(obj.step_sizes), step)
    IN  [self |-> [step_sizes |-> sizes, ghs_counter |-> obj.ghs_counter + 1] @@ obj,
         ret  |-> VMul(sizes, descent_direction)]

GHS_rescale_update(obj, phi_t, phi_tp, delta, reward, descent_direction) ==
    LET step  == Div(Mul(obj.alpha, obj.ghs_param),
                     Sub(Add(obj.ghs_param, Int2F(obj.ghs_counter)), One))
        sizes == Full(Len(obj.step_sizes), step)
    IN  [self |-> [step_sizes |-> sizes, ghs_counter |-> obj.ghs_counter + 1] @@ obj,
         ret  |-> VMul(sizes, descent_direction)]

\* rnd[1] is the draw of numpy.random.random().
GHS_randomize_parameters(obj, args, rnd) ==
    LET a == GetDefault(args, "ghs_a", Mul(rnd[1], Int2F(10000)))
    IN  [self |-> [params |-> Put(obj.params, "ghs_a", a)] @@ obj,
         ret  |-> <<a>>]

\* class McClains
McClains_init_stepsize(obj, weights_shape) ==
    LET p0   == SetDefault(obj.params, "mcclain_a", Rat(1, 100))
        swap == Less(obj.alpha, p0["mcclain_a"])
        alpha  == IF swap THEN p0["mcclain_a"] ELSE obj.alpha
        params == IF swap THEN Put(p0, "mcclain_a", obj.alpha) ELSE p0
    IN  [alpha         |-> alpha,
         params        |-> params,
         step_sizes    |-> VScale(alpha, Ones(weights_shape)),
         mcclain_param |-> params["mcclain_a"]] @@ obj

\* A McClains whose denominator has the signs exchanged: 1 - alpha + a.
McClains_rescale_update_signs(obj, phi_t, phi_tp, delta, reward, descent_direction) ==
    LET sizes == Full(Len(obj.step_sizes), obj.alpha)
        alpha == Div(obj.alpha, Add(Sub(One, obj.alpha), obj.mcclain_param))
    IN  [self |-> [step_sizes |-> sizes, alpha |-> alpha] @@ obj,
         ret  |-> VMul(sizes, descent_direction)]

McClains_rescale_update(obj, phi_t, phi_tp, delta, reward, descent_direction) ==
    LET sizes == Full(Len(obj.step_sizes), obj.alpha)
        alpha == Div(obj.alpha, Sub(Add(One, obj.alpha), obj.mcclain_param))
    IN  [self |-> [step_sizes |-> sizes, alpha |-> alpha] @@ obj,
         ret  |-> VMul(sizes, descent_direction)]

McClains_randomize_parameters(obj, args, rnd) ==
    LET a == GetDefault(args, "mcclain_a", Mul(rnd[1], obj.alpha))
    IN  [self |-> [params |-> Put(obj.params, "mcclain_a", a)] @@ obj,
         ret  |-> <<a>>]

\* class STC
STC_init_stepsize(obj, weights_shape) ==
    LET p0 == SetDefault(obj.params, "stc_c", Int2F(1000000))
        p1 == SetDefault(p0, "stc_N", Int2F(500000))
    IN  [step_sizes  |-> VScale(obj.alpha, Ones(weights_shape)),
         stc_a0      |-> obj.alpha,
         params      |-> p1,
         stc_c       |-> p1["stc_c"],
         stc_N       |-> p1["stc_N"],
         stc_counter |-> 0] @@ obj

STC_rescale_update(obj, phi_t, phi_tp, delta, reward, descent_direction) ==
    LET k     == Int2F(obj.stc_counter)
        term  == Div(Mul(obj.stc_c, k), Mul(obj.stc_a0, obj.stc_N))
        up    == Mul(obj.alpha, Add(One, term))
        quad  == Div(Mul(obj.stc_N, Mul(k, k)), Mul(obj.stc_N, obj.stc_N))
        alpha == Div(up, Add(Add(One, term), quad))
        sizes == Full(Len(obj.step_sizes), alpha)
    IN  [self |-> [alpha |-> alpha, step_sizes |-> sizes,
                   stc_counter |-> obj.stc_counter + 1] @@ obj,
         ret  |-> VMul(sizes, descent_direction)]

STC_randomize_parameters(obj, args, rnd) ==
    LET c == GetDefault(args, "stc_c", Mul(Mul(rnd[1], Int2F(100000)), Int2F(100000)))
        N == GetDefault(args, "stc_N", Mul(rnd[2], Int2F(1000000)))
    IN  [self |-> [params |-> Put(Put(obj.params, "stc_c", c), "stc_N", N)] @@ obj,
         ret  |-> <<c, N>>]

\* class RProp
RProp_init_stepsize(obj, weights_shape) ==
    LET p0 == SetDefault(obj.params, "rprop_eta_low", Rat(1, 100))
        p1 == SetDefault(p0, "rprop_eta_high", Rat(6, 5))
    IN  [step_sizes  |-> VScale(obj.alpha, Ones(weights_shape)),
         last_update |-> Zeros(weights_shape),
         params      |-> p1,
         eta_low     |-> p1["rprop_eta_low"],
         eta_high    |-> p1["rprop_eta_high"]] @@ obj

\* The sign test with < in place of <=.
RProp_sign_changes_strict(obj, delta) ==
    {i \in 1..Len(obj.step_sizes) :
        Less(Mul(Mul(obj.last_update[i], delta), obj.traces[i]), Zero)}

\* numpy.where(last_update * delta * traces <= 0): the indices it selects.
RProp_sign_changes(obj, delta) ==
    {i \in 1..Len(obj.step_sizes) :
        Leq(Mul(Mul(obj.last_update[i], delta), obj.traces[i]), Zero)}

\* An RProp that remembers the update it scaled: last_update = delta * traces.
RProp_rescale_update_remembering(obj, phi_t, phi_tp, delta, reward, descent_direction) ==
    LET sign_changes == RProp_sign_changes(obj, delta)
        sizes == [i \in 1..Len(obj.step_sizes) |->
                     IF i \in sign_changes THEN obj.eta_low ELSE obj.eta_high]
    IN  [self |-> [step_sizes |-> sizes, last_update |-> VScale(delta, obj.traces)] @@ obj,
         ret  |-> VMul(sizes, descent_direction)]

RProp_rescale_update(obj, phi_t, phi_tp, delta, reward, descent_direction) ==
    LET sign_changes == RProp_sign_changes(obj, delta)
        sizes == [i \in 1..Len(obj.step_sizes) |->
                     IF i \in sign_changes THEN obj.eta_low ELSE obj.eta_high]
    IN  [self |-> [step_sizes |-> sizes] @@ obj,
         ret  |-> VMul(sizes, descent_direction)]

RProp_randomize_parameters(obj, args, rnd) ==
    LET high == GetDefault(args, "rprop_eta_high", Mul(rnd[1], Int2F(2)))
        low  == GetDefault(args, "rprop_eta_low", Mul(rnd[2], high))
    IN  [self |-> [params |-> Put(Put(obj.params, "rprop_eta_high", high),
                                  "rprop_eta_low", low)] @@ obj,
         ret  |-> <<low, high>>]

\* class Autostep
Autostep_init_stepsize(obj, weights_shape) ==
    LET p0 == SetDefault(obj.params, "autostep_mu", Rat(1, 100))
        p1 == SetDefault(p0, "autostep_tau", Int2F(10000))
    IN  [step_sizes |-> VScale(obj.alpha, Ones(weights_shape)),
         h          |-> Zeros(weights_shape),
         v          |-> Zeros(weights_shape),
         params     |-> p1,
         mu         |-> p1["autostep_mu"],
         tau        |-> p1["autostep_tau"]] @@ obj

Autostep_rescale_update(obj, phi_t, phi_tp, delta, reward, descent_direction) ==
    LET I == 1..Len(obj.step_sizes)
        x == phi_t
        x2 == VSq(x)
        deltaTerm == VMul(VScale(delta, x), obj.h)
        alphas0 == obj.step_sizes
        v == [i \in I |->
                FMax(FAbs(deltaTerm[i]),
                     Add(obj.v[i],
                         Mul(Mul(Mul(Div(One, obj.tau), alphas0[i]), x2[i]),
                             Sub(FAbs(deltaTerm[i]), obj.v[i]))))]
        alphas == [i \in I |->
                     IF ~IsZero(v[i])
                     THEN Mul(alphas0[i], Exp(Div(Mul(obj.mu, deltaTerm[i]), v[i])))
                     ELSE alphas0[i]]
        M == FMax(Dot(alphas, x2), One)
        sizes == [i \in I |-> Div(alphas[i], M)]
        plus_note == [i \in I |-> Sub(One, Mul(sizes[i], x2[i]))]
        h == VAdd(VMul(obj.h, plus_note), VMul(VScale(delta, sizes), x))
    IN  [self |-> [v |-> v, step_sizes |-> sizes, h |-> h] @@ obj,
         ret  |-> VMul(sizes, descent_direction)]

Autostep_randomize_parameters(obj, args, rnd) ==
    LET mu  == GetDefault(args, "autostep_mu", rnd[1])
        tau == GetDefault(args, "autostep_tau", Mul(rnd[2], Int2F(1000000)))
    IN  [self |-> [params |-> Put(Put(obj.params, "autostep_mu", mu),
                                  "autostep_tau", tau)] @@ obj,
         ret  |-> <<mu, tau>>]

\* class AlphaBounds
AlphaBounds_init_stepsize(obj, weights_shape) ==
    [alpha |-> One, step_sizes |-> VScale(One, Ones(weights_shape))] @@ obj

AlphaBounds_denomTerm(obj, phi_t, phi_tp) ==
    Dot(obj.traces, VSub(VScale(obj.gamma, phi_tp), phi_t))

\* An AlphaBounds that takes the bound itself, without the min.
AlphaBounds_rescale_update_nomin(obj, phi_t, phi_tp, delta, reward, descent_direction) ==
    LET denomTerm == AlphaBounds_denomTerm(obj, phi_t, phi_tp)
        alpha == Div(One, FAbs(denomTerm))
        sizes == Full(Len(obj.step_sizes), alpha)
    IN  [self |-> [alpha |-> alpha, step_sizes |-> sizes] @@ obj,
         ret  |-> VMul(sizes, descent_direction)]

AlphaBounds_rescale_update(obj, phi_t, phi_tp, delta, reward, descent_direction) ==
    LET denomTerm == AlphaBounds_denomTerm(obj, phi_t, phi_tp)
        alpha == FMin(obj.alpha, Div(One, FAbs(denomTerm)))
        sizes == Full(Len(obj.step_sizes), alpha)
    IN  [self |-> [alpha |-> alpha, step_sizes |-> sizes] @@ obj,
         ret  |-> VMul(sizes, descent_direction)]

\* pyrl.misc.matrix.SMInv(Ainv, u, v, e): the Sherman-Morrison update
\* Ainv/e - (Ainv/e u)(v' Ainv/e) / (1 + v' Ainv/e u).
MatVec(A, u) == [i \in 1..Len(A) |-> Dot(A[i], u)]

VecMat(u, A) == [j \in 1..Len(A) |-> Sum([i \in 1..Len(A) |-> Mul(u[i], A[i][j])], Len(A))]

SMInv(Ainv, u, v, e) ==
    LET I  == 1..Len(Ainv)
        B  == [i \in I |-> [j \in I |-> Div(Ainv[i][j], e)]]
        Bu == MatVec(B, u)
        vB == VecMat(v, B)
        c  == Add(One, Dot(v, Bu))
    IN  [i \in I |-> [j \in I |-> Sub(B[i][j], Div(Mul(Bu[i], vB[j]), c))]]

\* numpy.real(scipy.linalg.sqrtm(A)) of a diagonal A: the square roots of the
\* diagonal, the real part 0 where an entry is negative.  A matrix that is not
\* diagonal has no representation here.
sqrtm_real(A) ==
    LET I == 1..Len(A)
    IN  IF \A i, j \in I : i # j => IsZero(A[i][j])
        THEN [i \in I |-> [j \in I |->
                 IF i # j THEN Zero
                 ELSE IF IsFinite(A[i][i]) /\ A[i][i].n < 0 THEN Zero
                 ELSE Sqrt(A[i][i])]]
        ELSE Unrepresentable

\* class AdagradFull
AdagradFull_init_stepsize(obj, weights_shape) ==
    LET p0 == SetDefault(obj.params, "adagrad_precond", Rat(1, 1000))
        I  == 1..weights_shape
    IN  [step_sizes      |-> VScale(obj.alpha, Ones(weights_shape)),
         params          |-> p0,
         h               |-> [i \in I |-> [j \in I |->
                                 IF i = j THEN p0["adagrad_precond"] ELSE Zero]],
         adagrad_counter |-> 0] @@ obj

AdagradFull_rescale_update(obj, phi_t, phi_tp, delta, reward, descent_direction) ==
    LET counter == obj.adagrad_counter + 1
        g    == descent_direction
        h    == SMInv(obj.h, g, g, One)
        Hinv == sqrtm_real(h)
        dir  == IF counter > 0
                THEN VScale(Sqrt(Int2F(counter)), MatVec(Hinv, descent_direction))
                ELSE descent_direction
    IN  [self |-> [adagrad_counter |-> counter, h |-> h] @@ obj,
         ret  |-> VMul(obj.step_sizes, dir)]

\* class AdagradDiagonal
AdagradDiagonal_init_stepsize(obj, weights_shape) ==
    [step_sizes      |-> VScale(obj.alpha, Ones(weights_shape)),
     h               |-> Zeros(weights_shape),
     adagrad_counter |-> 0] @@ obj

\* An AdagradDiagonal without the sqrt(counter) factor: alpha / sqrt(h).
AdagradDiagonal_rescale_update_unscaled(obj, phi_t, phi_tp, delta, reward, descent_direction) ==
    LET counter == obj.adagrad_counter + 1
        h == VAdd(obj.h, VSq(descent_direction))
        sizes == IF counter > 1
                 THEN [i \in 1..Len(h) |->
                         IF ~IsZero(h[i])
                         THEN Div(obj.alpha, Sqrt(h[i]))
                         ELSE obj.alpha]
                 ELSE obj.step_sizes
    IN  [self |-> [adagrad_counter |-> counter, h |-> h, step_sizes |-> sizes] @@ obj,
         ret  |-> VMul(sizes, descent_direction)]

AdagradDiagonal_rescale_update(obj, phi_t, phi_tp, delta, reward, descent_direction) ==
    LET counter == obj.adagrad_counter + 1
        h == VAdd(obj.h, VSq(descent_direction))
        sizes == IF counter > 1
                 THEN [i \in 1..Len(h) |->
                         IF ~IsZero(h[i])
                         THEN Mul(obj.alpha, Div(Sqrt(Int2F(counter)), Sqrt(h[i])))
                         ELSE obj.alpha]
                 ELSE obj.step_sizes
    IN  [self |-> [adagrad_counter |-> counter, h |-> h, step_sizes |-> sizes] @@ obj,
         ret  |-> VMul(sizes, descent_direction)]

\* class AlmeidaAdaptive; prev_grad = None is the empty tuple.
AlmeidaAdaptive_init_stepsize(obj, weights_shape) ==
    LET p0 == SetDefault(obj.params, "almeida_gamma", Rat(999, 1000))
        p1 == SetDefault(p0, "almeida_stepsize", Rat(1, 100000))
    IN  [step_sizes       |-> VScale(obj.alpha, Ones(weights_shape)),
         prev_grad        |-> <<>>,
         v                |-> Ones(weights_shape),
         params           |-> p1,
         almeida_gamma    |-> p1["almeida_gamma"],
         almeida_stepsize |-> p1["almeida_stepsize"]] @@ obj

AlmeidaAdaptive_rescale_update(obj, phi_t, phi_tp, delta, reward, descent_direction) ==
    LET I == 1..Len(obj.step_sizes)
        v == VAdd(VScale(obj.almeida_gamma, obj.v),
                  VScale(Sub(One, obj.almeida_gamma), VSq(descent_direction)))
        vbar == [i \in I |-> IF IsZero(v[i]) THEN One ELSE v[i]]
        sizes == IF obj.prev_grad = <<>>
                 THEN obj.step_sizes
                 ELSE [i \in I |->
                         Mul(obj.step_sizes[i],
                             Add(One, Div(Mul(obj.almeida_stepsize,
                                              Dot(obj.prev_grad, descent_direction)),
                                          vbar[i])))]
    IN  [self |-> [v |-> v, step_sizes |-> sizes, prev_grad |-> descent_direction] @@ obj,
         ret  |-> VMul(sizes, descent_direction)]

AlmeidaAdaptive_randomize_parameters(obj, args, rnd) ==
    LET g  == GetDefault(args, "almeida_gamma", rnd[1])
        lr == GetDefault(args, "almeida_stepsize", rnd[2])
    IN  [self |-> [params |-> Put(Put(obj.params, "almeida_gamma", g),
                                  "almeida_stepsize", lr)] @@ obj,
         ret  |-> <<g, lr>>]

\* class vSGD
vSGD_init_stepsize(obj, weights_shape) ==
    LET p0 == SetDefault(obj.params, "vsgd_initmeta", Int2F(100))
        p1 == SetDefault(p0, "vsgd_slowstart", Int2F(50))
    IN  [step_sizes |-> VScale(obj.alpha, Ones(weights_shape)),
         g          |-> Zeros(weights_shape),
         v          |-> Zeros(weights_shape),
         h          |-> Zeros(weights_shape),
         t          |-> VScale(p1["vsgd_initmeta"], Ones(weights_shape)),
         params     |-> p1,
         slow_start |-> p1["vsgd_slowstart"]] @@ obj

\* numpy.random.randint(k) from a draw r of the uniform generator on [0,1).
RandInt(r, k) == LET x == Mul(r, Int2F(k)) IN Int2F(x.n \div x.d)

vSGD_randomize_parameters(obj, args, rnd) ==
    LET slow == GetDefault(args, "vsgd_slowstart", RandInt(rnd[1], 500))
        meta == GetDefault(args, "vsgd_initmeta", Add(RandInt(rnd[2], 1000), Int2F(10)))
    IN  [self |-> [params |-> Put(Put(obj.params, "vsgd_slowstart", slow),
                                  "vsgd_initmeta", meta)] @@ obj,
         ret  |-> <<slow, meta>>]

\* x.clip(1.e-15, 1.): every positive value of this arithmetic lies above
\* 1e-15; the bound 1e-15 itself has no representation in it.
vSGD_clip_meta(x) ==
    IF IsNaN(x) THEN NaN
    ELSE IF Less(Zero, x) THEN FMin(x, One)
    ELSE Unrepresentable

\* The running average m *= -(1/t - 1); m += (1/t) * x, per component.
vSGD_average(m, t, x) ==
    [i \in 1..Len(m) |->
        Add(Mul(m[i], Neg(Sub(Div(One, t[i]), One))), Mul(Div(One, t[i]), x[i]))]

vSGD_meta(obj, g, v) ==
    IF Leq(obj.slow_start, Zero)
    THEN [i \in 1..Len(g) |->
            Add(Mul(obj.t[i],
                    vSGD_clip_meta(Neg(Sub(Div(Mul(g[i], g[i]), v[i]), One)))),
                One)]
    ELSE obj.t

\* A vSGD without denom[denom==0] = 1.0.
vSGD_rescale_update_unguarded(obj, phi_t, phi_tp, delta, reward, descent_direction) ==
    LET I == 1..Len(obj.step_sizes)
        est_hessian == VSq(VSub(VScale(obj.gamma, phi_tp), phi_t))
        g == vSGD_average(obj.g, obj.t, descent_direction)
        v == vSGD_average(obj.v, obj.t, VSq(descent_direction))
        h == vSGD_average(obj.h, obj.t, est_hessian)
        sizes == [i \in I |-> FMin(Div(Mul(g[i], g[i]), Mul(h[i], v[i])), One)]
        t == vSGD_meta(obj, g, v)
    IN  [self |-> [g |-> g, v |-> v, h |-> h, step_sizes |-> sizes, t |-> t,
                   slow_start |-> Sub(obj.slow_start, One)] @@ obj,
         ret  |-> VMul(sizes, descent_direction)]

vSGD_rescale_update(obj, phi_t, phi_tp, delta, reward, descent_direction) ==
    LET I == 1..Len(obj.step_sizes)
        est_hessian == VSq(VSub(VScale(obj.gamma, phi_tp), phi_t))
        g == vSGD_average(obj.g, obj.t, descent_direction)
        v == vSGD_average(obj.v, obj.t, VSq(descent_direction))
        h == vSGD_average(obj.h, obj.t, est_hessian)
        denom == [i \in I |-> LET hv == Mul(h[i], v[i]) IN IF IsZero(hv) THEN One ELSE hv]
        sizes == [i \in I |-> FMin(Div(Mul(g[i], g[i]), denom[i]), One)]
        t == vSGD_meta(obj, g, v)
    IN  [self |-> [g |-> g, v |-> v, h |-> h, step_sizes |-> sizes, t |-> t,
                   slow_start |-> Sub(obj.slow_start, One)] @@ obj,
         ret  |-> VMul(sizes, descent_direction)]

\* class InvMaxEigen; normal is the draw of numpy.random.normal(size=shape).
InvMaxEigen_normalized(normal) == [i \in 1..Len(normal) |-> Div(normal[i], Norm(normal))]

InvMaxEigen_init_stepsize(obj, weights_shape, normal) ==
    LET p0 == SetDefault(obj.params, "lecun_gamma", Rat(1, 100))
        p1 == SetDefault(p0, "lecun_alpha", Rat(1, 100))
        p2 == SetDefault(p1, "lecun_threshold", Rat(1, 1000))
    IN  [step_sizes          |-> VScale(obj.alpha, Ones(weights_shape)),
         est_eigvector       |-> InvMaxEigen_normalized(normal),
         params              |-> p2,
         lecun_gamma         |-> p2["lecun_gamma"],
         lecun_alpha         |-> p2["lecun_alpha"],
         stability_threshold |-> p2["lecun_threshold"]] @@ obj

InvMaxEigen_randomize_parameters(obj, args, rnd) ==
    LET g   == GetDefault(args, "lecun_gamma", rnd[1])
        a   == GetDefault(args, "lecun_alpha", rnd[2])
        thr == GetDefault(args, "lecun_threshold", Mul(rnd[1], Rat(1, 10)))
    IN  [self |-> [params |-> Put(Put(Put(obj.params, "lecun_gamma", g),
                                      "lecun_alpha", a), "lecun_threshold", thr)] @@ obj,
         ret  |-> <<g, a, thr>>]

\* An InvMaxEigen that perturbs weights itself instead of a copy.
InvMaxEigen_rescale_update_inplace(obj, phi_t, phi_tp, delta, reward, descent_direction, normal) ==
    LET I == 1..Len(obj.step_sizes)
        prevEigValue == Norm(obj.est_eigvector)
        weights == [i \in I |->
            Add(obj.weights[i],
                Mul(obj.lecun_alpha, Div(obj.est_eigvector[i], prevEigValue)))]
        perterbed_delta ==
            Add(Dot(weights, VSub(VScale(obj.gamma, phi_tp), phi_t)), reward)
        pert_gradient ==
            VScale(Neg(perterbed_delta), VSub(phi_t, VScale(obj.gamma, phi_tp)))
        gradient == [i \in I |-> Neg(descent_direction[i])]
        est == VAdd(VScale(Sub(One, obj.lecun_gamma), obj.est_eigvector),
                    VScale(Div(obj.lecun_gamma, obj.lecun_alpha),
                           VSub(pert_gradient, gradient)))
        update_ratio == Div(FAbs(Sub(prevEigValue, Norm(est))), prevEigValue)
        converged == Leq(update_ratio, obj.stability_threshold)
        sizes == IF converged
                 THEN Full(Len(obj.step_sizes), Div(One, Norm(est)))
                 ELSE obj.step_sizes
        est2 == IF converged
                THEN InvMaxEigen_normalized(normal)
                ELSE est
    IN  [self |-> [weights |-> weights, est_eigvector |-> est2,
                   step_sizes |-> sizes] @@ obj,
         ret  |-> VMul(sizes, descent_direction)]

InvMaxEigen_rescale_update(obj, phi_t, phi_tp, delta, reward, descent_direction, normal) ==
    LET I == 1..Len(obj.step_sizes)
        prevEigValue == Norm(obj.est_eigvector)
        perterb_weights == [i \in I |->
            Add(obj.weights[i],
                Mul(obj.lecun_alpha, Div(obj.est_eigvector[i], prevEigValue)))]
        perterbed_delta ==
            Add(Dot(perterb_weights, VSub(VScale(obj.gamma, phi_tp), phi_t)), reward)
        pert_gradient ==
            VScale(Neg(perterbed_delta), VSub(phi_t, VScale(obj.gamma, phi_tp)))
        gradient == [i \in I |-> Neg(descent_direction[i])]
        est == VAdd(VScale(Sub(One, obj.lecun_gamma), obj.est_eigvector),
                    VScale(Div(obj.lecun_gamma, obj.lecun_alpha),
                           VSub(pert_gradient, gradient)))
        update_ratio == Div(FAbs(Sub(prevEigValue, Norm(est))), prevEigValue)
        converged == Leq(update_ratio, obj.stability_threshold)
        sizes == IF converged
                 THEN Full(Len(obj.step_sizes), Div(One, Norm(est)))
                 ELSE obj.step_sizes
        est2 == IF converged
                THEN InvMaxEigen_normalized(normal)
                ELSE est
    IN  [self |-> [est_eigvector |-> est2, step_sizes |-> sizes] @@ obj,
         ret  |-> VMul(sizes, descent_direction)]

----------------------------------------------------------------------------
(* The composed agent                                                      *)

\* genAdaptiveAgent(stepsize_class, agent_class): the class it returns.
StepsizeName(cls) ==
    CASE cls = "AdaptiveStepSize" -> "Fixed StepSize"
      [] cls = "GHS"              -> "GHS"
      [] cls = "McClains"         -> "McClains"
      [] cls = "STC"              -> "STC"
      [] cls = "RProp"            -> "RProp"
      [] cls = "Autostep"         -> "Autostep"
      [] cls = "AlphaBounds"      -> "AlphaBound"
      [] cls = "AdagradFull"      -> "AdagradFull"
      [] cls = "AdagradDiagonal"  -> "AdagradDiagonal"
      [] cls = "AlmeidaAdaptive"  -> "Almeida"
      [] cls = "vSGD"             -> "vSGD"
      [] cls = "InvMaxEigen"      -> "InvMaxEigen"

genAdaptiveAgent(stepsize_class, agent_class) ==
    [stepsize_class |-> stepsize_class,
     agent_class    |-> agent_class.cls,
     name           |-> "Adaptive (" \o StepsizeName(stepsize_class) \o ") " \o agent_class.name,
     bases          |-> <<stepsize_class, agent_class.cls>>]

\* The base agent, an external collaborator: its name, and what its
\* constructor and its randomize_parameters do to the object.
sarsa_lambda == [cls |-> "sarsa_lambda", name |-> "Sarsa"]

agent_class_randomize_parameters(obj, args) ==
    LET alpha == GetDefault(args, "alpha", obj.alpha)
    IN  [self |-> [alpha |-> alpha, params |-> Put(obj.params, "alpha", alpha)] @@ obj,
         ret  |-> <<alpha, obj.gamma>>]

\* AdaptiveAgent.randomize_parameters(**args): each base class gets its own
\* copy of args; rnd are the draws of the strategy's random generator.
stepsize_class_randomize_parameters(cls, obj, args, rnd) ==
    CASE cls = "GHS"      -> GHS_randomize_parameters(obj, args, rnd)
      [] cls = "McClains" -> McClains_randomize_parameters(obj, args, rnd)
      [] cls = "STC"      -> STC_randomize_parameters(obj, args, rnd)
      [] cls = "RProp"    -> RProp_randomize_parameters(obj, args, rnd)
      [] cls = "Autostep" -> Autostep_randomize_parameters(obj, args, rnd)
      [] cls = "AlmeidaAdaptive" -> AlmeidaAdaptive_randomize_parameters(obj, args, rnd)
      [] cls = "vSGD"     -> vSGD_randomize_parameters(obj, args, rnd)
      [] cls = "InvMaxEigen" -> InvMaxEigen_randomize_parameters(obj, args, rnd)
      [] OTHER            -> AdaptiveStepSize_randomize_parameters(obj, args, rnd)

\* A composition that asks the strategy first.
AdaptiveAgent_randomize_parameters_swapped(cls, obj, args, rnd) ==
    LET first  == stepsize_class_randomize_parameters(cls, obj, args, rnd)
        second == agent_class_randomize_parameters(first.self, args)
    IN  [self  |-> second.self,
         ret   |-> first.ret \o second.ret,
         calls |-> << [fn |-> "stepsize_class.randomize_parameters", args |-> args,
                       ret |-> first.ret],
                      [fn |-> "agent_class.randomize_parameters", args |-> args,
                       ret |-> second.ret] >>]

AdaptiveAgent_randomize_parameters(cls, obj, args, rnd) ==
    LET first  == agent_class_randomize_parameters(obj, args)
        second == stepsize_class_randomize_parameters(cls, first.self, args, rnd)
    IN  [self  |-> second.self,
         ret   |-> first.ret \o second.ret,
         calls |-> << [fn |-> "agent_class.randomize_parameters", args |-> args,
                       ret |-> first.ret],
                      [fn |-> "stepsize_class.randomize_parameters", args |-> args,
                       ret |-> second.ret] >>]

----------------------------------------------------------------------------
(* Bounds and input sets                                                   *)

\* rescale_update calls followed in one run; one fewer for the classes whose
\* numbers grow fastest in this arithmetic.
MaxCalls == 3

CallLimit(cls) ==
    IF cls \in {"Autostep", "vSGD", "InvMaxEigen"} THEN MaxCalls - 1 ELSE MaxCalls

StepsizeClasses ==
    {"AdaptiveStepSize", "GHS", "McClains", "STC", "RProp", "Autostep", "AlphaBounds",
     "AdagradFull", "AdagradDiagonal", "AlmeidaAdaptive", "vSGD", "InvMaxEigen"}

Alphas == {Rat(1, 10), Rat(1, 2)}

Gammas == {Rat(1, 2), One}

\* The params dictionaries an agent is constructed with.
ParamSets(cls) ==
    CASE cls = "GHS"      -> {<<>>, [ghs_a |-> Int2F(2)]}
      [] cls = "McClains" -> {<<>>, [mcclain_a |-> Rat(1, 4)]}
      [] cls = "STC"      -> {[stc_c |-> Int2F(2), stc_N |-> Int2F(4)]}
      [] cls = "RProp"    -> {<<>>, [rprop_eta_low |-> Rat(1, 2), rprop_eta_high |-> Int2F(2)]}
      [] cls = "Autostep" -> {[autostep_mu |-> Rat(1, 2), autostep_tau |-> Int2F(2)]}
      [] cls = "AlmeidaAdaptive" ->
             {[almeida_gamma |-> Rat(1, 2), almeida_stepsize |-> Rat(1, 2)]}
      [] cls = "InvMaxEigen" ->
             {[lecun_gamma |-> Rat(1, 2), lecun_alpha |-> Rat(1, 2),
               lecun_threshold |-> Rat(1, 16)]}
      [] cls = "vSGD"     -> {[vsgd_initmeta |-> Int2F(2), vsgd_slowstart |-> Zero],
                              [vsgd_initmeta |-> Int2F(2), vsgd_slowstart |-> One]}
      [] OTHER            -> {<<>>}

\* weights.shape = (n,).  The matrix square root and the 2-norm leave the
\* arithmetic above on larger arrays than these.
Shapes(cls) ==
    CASE cls \in {"AdaptiveStepSize", "GHS"} -> {1, 2, 3}
      [] cls = "InvMaxEigen"                 -> {1}
      [] OTHER                               -> {1, 2}

Features(n) ==
    CASE n = 1 -> {<<Zero>>, <<One>>}
      [] n = 2 -> {<<One, Zero>>, <<Zero, One>>}
      [] n = 3 -> {<<One, Zero, One>>, <<Zero, Zero, Zero>>}

Directions(n) ==
    CASE n = 1 -> {<<Zero>>, <<Rat(1, 2)>>, <<Neg(One)>>}
      [] n = 2 -> {<<Zero, Zero>>, <<Rat(1, 2), Neg(One)>>, <<One, Zero>>}
      [] n = 3 -> {<<Zero, Zero, Zero>>, <<One, One, One>>, <<One, Int2F(2), Int2F(3)>>}

\* Directions along one axis: they keep AdagradFull's matrix diagonal.
AxisDirections(n) ==
    CASE n = 1 -> {<<Zero>>, <<Rat(1, 2)>>, <<Neg(One)>>}
      [] n = 2 -> {<<Zero, Zero>>, <<Zero, Neg(One)>>, <<One, Zero>>}

Deltas == {Neg(One), Zero, Rat(1, 2)}

Rewards == {Zero, One}

\* The weights and traces the base agent holds when it asks for a rescaling.
AgentMoves(n) ==
    {[weights |-> Zeros(n), traces |-> Full(n, Int2F(2))],
     [weights |-> Ones(n), traces |-> Zeros(n)]}

InitialWeights(n) == {Zeros(n)}

\* The arguments of one rescale_update call; an argument the class never
\* reads is held at one value.
Calls(cls, n) ==
    LET Mk(F, G, D, R, X) ==
            {[phi_t |-> f, phi_tp |-> g, delta |-> d, reward |-> r,
              descent_direction |-> x] :
                  f \in F, g \in G, d \in D, r \in R, x \in X}
        phi  == CHOOSE f \in Features(n) : f # Zeros(n)
        Phi  == Features(n)
        Dir  == Directions(n)
    IN  CASE cls = "RProp"       -> Mk({phi}, {phi}, Deltas, {Zero}, Dir)
          [] cls = "Autostep"    -> Mk(Phi, {phi}, {Neg(One), Rat(1, 2)}, {Zero}, Dir)
          [] cls = "AlphaBounds" -> Mk(Phi \cup {Full(n, Int2F(2))}, Phi, {One}, {Zero}, Dir)
          [] cls = "vSGD"        -> Mk(Phi, {phi}, {One}, {Zero}, Dir)
          [] cls = "InvMaxEigen" -> Mk(Phi, {phi}, {One}, Rewards, Dir)
          [] cls = "AdagradFull" -> Mk({phi}, {phi}, {One}, {Zero}, AxisDirections(n))
          [] OTHER               -> Mk({phi}, {phi}, {One}, {Zero}, Dir)

\* The draws of numpy.random.normal(size=(n,)).
Normals(n) == {Full(n, Int2F(2)), Full(n, Neg(One))}

\* The overrides randomize_parameters is called with, and the draws of the
\* random generator.
Overrides(cls) ==
    CASE cls = "GHS"      -> {<<>>, [ghs_a |-> Int2F(10)]}
      [] cls = "McClains" -> {<<>>, [mcclain_a |-> Rat(1, 100)]}
      [] cls = "STC"      -> {<<>>, [stc_N |-> Int2F(4)]}
      [] cls = "RProp"    -> {<<>>, [rprop_eta_high |-> Int2F(2)]}
      [] cls = "Autostep" -> {<<>>, [autostep_mu |-> Rat(1, 100)]}
      [] cls = "AlmeidaAdaptive" -> {<<>>, [almeida_stepsize |-> Rat(1, 2)]}
      [] cls = "vSGD"     -> {<<>>, [vsgd_slowstart |-> Zero]}
      [] cls = "InvMaxEigen" -> {<<>>, [lecun_alpha |-> Rat(1, 100)]}
      [] OTHER            -> {<<>>, [alpha |-> Rat(1, 4)]}

Draws(cls) == {<<Rat(1, 10), Rat(1, 8)>>, <<Rat(1, 8), Rat(1, 10)>>}

----------------------------------------------------------------------------
(* State machine                                                           *)

VARIABLES
    AdaptiveAgent,  \* the class genAdaptiveAgent returned
    self,           \* the attributes of its one instance
    pc,             \* where the instance is in its life
    call,           \* the last method called on it, with its arguments
    ret,            \* what that call returned
    calls,          \* the base-class calls AdaptiveAgent's own methods made
    ncalls,         \* rescale_update calls so far
    gradients       \* their descent_direction arguments, in order

vars == <<AdaptiveAgent, self, pc, call, ret, calls, ncalls, gradients>>

cls == AdaptiveAgent.stepsize_class

\* After AdaptiveAgent(**args): only agent_class.__init__ has run.
Init ==
    \E c \in StepsizeClasses, alpha \in Alphas, gamma \in Gammas :
      \E params \in ParamSets(c) :
        /\ AdaptiveAgent = genAdaptiveAgent(c, sarsa_lambda)
        /\ self = [params |-> params, alpha |-> alpha, gamma |-> gamma]
        /\ pc = "constructed"
        /\ call = [op |-> "__init__"]
        /\ ret = None
        /\ calls = << [fn |-> "agent_class.__init__"] >>
        /\ ncalls = 0
        /\ gradients = <<>>

randomize_parameters ==
    /\ pc = "constructed"
    /\ \E args \in Overrides(cls), rnd \in Draws(cls) :
         LET r == AdaptiveAgent_randomize_parameters(cls, self, args, rnd)
         IN  /\ self' = r.self
             /\ ret' = r.ret
             /\ calls' = r.calls
             /\ call' = [op |-> "randomize_parameters", args |-> args]
    /\ pc' = "randomized"
    /\ UNCHANGED <<AdaptiveAgent, ncalls, gradients>>

\* The base agent's agent_init up to its call of init_stepsize.
agent_init ==
    /\ pc = "constructed"
    /\ \E n \in Shapes(cls) : \E w \in InitialWeights(n) :
         self' = [weights |-> w, traces |-> Zeros(n)] @@ self
    /\ pc' = "agent_init"
    /\ UNCHANGED <<AdaptiveAgent, call, ret, calls, ncalls, gradients>>

\* The base agent's part of a learning step, before it calls rescale_update:
\* it has added the last rescaled direction to weights and moved its traces on.
agent_update ==
    /\ pc = "ready"
    /\ ncalls < CallLimit(cls)
    /\ \E m \in AgentMoves(Len(self.weights)) :
         self' = [weights |-> m.weights, traces |-> m.traces] @@ self
    /\ pc' = "step"
    /\ UNCHANGED <<AdaptiveAgent, call, ret, calls, ncalls, gradients>>

InitStepsize(c, new) ==
    /\ cls = c
    /\ self' = new
    /\ pc' = "ready"
    /\ call' = [op |-> "init_stepsize", weights_shape |-> Len(self.weights)]
    /\ ret' = None
    /\ UNCHANGED <<AdaptiveAgent, calls, ncalls, gradients>>

RescaleUpdate(a, r) ==
    /\ self' = r.self
    /\ ret' = r.ret
    /\ call' = [op |-> "rescale_update"] @@ a
    /\ pc' = "ready"
    /\ ncalls' = ncalls + 1
    /\ gradients' = Append(gradients, a.descent_direction)
    /\ UNCHANGED <<AdaptiveAgent, calls>>

CanRescale(c) == pc = "step" /\ cls = c

AdaptiveStepSize_init ==
    /\ pc = "agent_init"
    /\ InitStepsize("AdaptiveStepSize", AdaptiveStepSize_init_stepsize(self, Len(self.weights)))

AdaptiveStepSize_rescale ==
    /\ CanRescale("AdaptiveStepSize")
    /\ \E a \in Calls(cls, Len(self.weights)) :
         RescaleUpdate(a, AdaptiveStepSize_rescale_update(self, a.phi_t, a.phi_tp, a.delta, a.reward,
                                             a.descent_direction))

GHS_init ==
    /\ pc = "agent_init"
    /\ InitStepsize("GHS", GHS_init_stepsize(self, Len(self.weights)))

GHS_rescale ==
    /\ CanRescale("GHS")
    /\ \E a \in Calls(cls, Len(self.weights)) :
         RescaleUpdate(a, GHS_rescale_update(self, a.phi_t, a.phi_tp, a.delta, a.reward,
                                             a.descent_direction))

McClains_init ==
    /\ pc = "agent_init"
    /\ InitStepsize("McClains", McClains_init_stepsize(self, Len(self.weights)))

McClains_rescale ==
    /\ CanRescale("McClains")
    /\ \E a \in Calls(cls, Len(self.weights)) :
         RescaleUpdate(a, McClains_rescale_update(self, a.phi_t, a.phi_tp, a.delta, a.reward,
                                             a.descent_direction))

STC_init ==
    /\ pc = "agent_init"
    /\ InitStepsize("STC", STC_init_stepsize(self, Len(self.weights)))

STC_rescale ==
    /\ CanRescale("STC")
    /\ \E a \in Calls(cls, Len(self.weights)) :
         RescaleUpdate(a, STC_rescale_update(self, a.phi_t, a.phi_tp, a.delta, a.reward,
                                             a.descent_direction))

RProp_init ==
    /\ pc = "agent_init"
    /\ InitStepsize("RProp", RProp_init_stepsize(self, Len(self.weights)))

RProp_rescale ==
    /\ CanRescale("RProp")
    /\ \E a \in Calls(cls, Len(self.weights)) :
         RescaleUpdate(a, RProp_rescale_update(self, a.phi_t, a.phi_tp, a.delta, a.reward,
                                             a.descent_direction))

Autostep_init ==
    /\ pc = "agent_init"
    /\ InitStepsize("Autostep", Autostep_init_stepsize(self, Len(self.weights)))

Autostep_rescale ==
    /\ CanRescale("Autostep")
    /\ \E a \in Calls(cls, Len(self.weights)) :
         RescaleUpdate(a, Autostep_rescale_update(self, a.phi_t, a.phi_tp, a.delta, a.reward,
                                             a.descent_direction))

AlphaBounds_init ==
    /\ pc = "agent_init"
    /\ InitStepsize("AlphaBounds", AlphaBounds_init_stepsize(self, Len(self.weights)))

AlphaBounds_rescale ==
    /\ CanRescale("AlphaBounds")
    /\ \E a \in Calls(cls, Len(self.weights)) :
         RescaleUpdate(a, AlphaBounds_rescale_update(self, a.phi_t, a.phi_tp, a.delta, a.reward,
                                             a.descent_direction))

AdagradFull_init ==
    /\ pc = "agent_init"
    /\ InitStepsize("AdagradFull", AdagradFull_init_stepsize(self, Len(self.weights)))

AdagradFull_rescale ==
    /\ CanRescale("AdagradFull")
    /\ \E a \in Calls(cls, Len(self.weights)) :
         RescaleUpdate(a, AdagradFull_rescale_update(self, a.phi_t, a.phi_tp, a.delta, a.reward,
                                             a.descent_direction))

AdagradDiagonal_init ==
    /\ pc = "agent_init"
    /\ InitStepsize("AdagradDiagonal", AdagradDiagonal_init_stepsize(self, Len(self.weights)))

AdagradDiagonal_rescale ==
    /\ CanRescale("AdagradDiagonal")
    /\ \E a \in Calls(cls, Len(self.weights)) :
         RescaleUpdate(a, AdagradDiagonal_rescale_update(self, a.phi_t, a.phi_tp, a.delta, a.reward,
                                             a.descent_direction))

AlmeidaAdaptive_init ==
    /\ pc = "agent_init"
    /\ InitStepsize("AlmeidaAdaptive", AlmeidaAdaptive_init_stepsize(self, Len(self.weights)))

AlmeidaAdaptive_rescale ==
    /\ CanRescale("AlmeidaAdaptive")
    /\ \E a \in Calls(cls, Len(self.weights)) :
         RescaleUpdate(a, AlmeidaAdaptive_rescale_update(self, a.phi_t, a.phi_tp, a.delta, a.reward,
                                             a.descent_direction))

vSGD_init ==
    /\ pc = "agent_init"
    /\ InitStepsize("vSGD", vSGD_init_stepsize(self, Len(self.weights)))

vSGD_rescale ==
    /\ CanRescale("vSGD")
    /\ \E a \in Calls(cls, Len(self.weights)) :
         RescaleUpdate(a, vSGD_rescale_update(self, a.phi_t, a.phi_tp, a.delta, a.reward,
                                             a.descent_direction))

InvMaxEigen_init ==
    /\ pc = "agent_init"
    /\ \E normal \in Normals(Len(self.weights)) :
         InitStepsize("InvMaxEigen", InvMaxEigen_init_stepsize(self, Len(self.weights), normal))

InvMaxEigen_rescale ==
    /\ CanRescale("InvMaxEigen")
    /\ \E a \in Calls(cls, Len(self.weights)), normal \in Normals(Len(self.weights)) :
         RescaleUpdate(a, InvMaxEigen_rescale_update(self, a.phi_t, a.phi_tp, a.delta, a.reward,
                                             a.descent_direction, normal))

Next ==
    \/ randomize_parameters
    \/ agent_init
    \/ agent_update
    \/ AdaptiveStepSize_init
    \/ AdaptiveStepSize_rescale
    \/ GHS_init
    \/ GHS_rescale
    \/ McClains_init
    \/ McClains_rescale
    \/ STC_init
    \/ STC_rescale
    \/ RProp_init
    \/ RProp_rescale
    \/ Autostep_init
    \/ Autostep_rescale
    \/ AlphaBounds_init
    \/ AlphaBounds_rescale
    \/ AdagradFull_init
    \/ AdagradFull_rescale
    \/ AdagradDiagonal_init
    \/ AdagradDiagonal_rescale
    \/ AlmeidaAdaptive_init
    \/ AlmeidaAdaptive_rescale
    \/ vSGD_init
    \/ vSGD_rescale
    \/ InvMaxEigen_init
    \/ InvMaxEigen_rescale

Spec == Init /\ [][Next]_vars

----------------------------------------------------------------------------
(* Properties                                                              *)

\* init_stepsize has run.
Initialized == pc \in {"ready", "step"}

\* rescale_update has just returned: call holds its arguments, ret its result.
Returned == pc = "ready" /\ ncalls > 0

\* The step now taken is a call of init_stepsize / of rescale_update.
InitStep == pc = "agent_init" /\ pc' = "ready"

RescaleStep == pc = "step" /\ pc' = "ready"

N == Len(self.step_sizes)

\* C1: McClains -- across successive rescale_update calls the scalar step
\* filled into step_sizes never grows: the step of each call is <= the step
\* of the call before it (and the first is the alpha init_stepsize left,
\* which lies above mcclain_a whether or not init_stepsize swapped the two).
C1_McClainsNonIncreasing ==
    [][(cls = "McClains" /\ RescaleStep) =>
          /\ Leq(self.mcclain_param, self.alpha)
          /\ \A i \in 1..N : /\ self'.step_sizes[i] = self.alpha
                             /\ Leq(self'.step_sizes[i], self.step_sizes[i])]_vars

\* Three McClains calls made, and the next step strictly below the last one.
C1_Witness ==
    /\ cls = "McClains" /\ Returned /\ ncalls >= 3
    /\ Less(self.mcclain_param, self.alpha)
    /\ Less(self.alpha, self.step_sizes[1])

\* C5: GHS -- at the k-th rescale_update call every component of step_sizes is
\* alpha * ghs_a / (ghs_a + k - 1): alpha itself at the first call, never
\* larger at a later call than at the one before; the counter grows by
\* exactly 1 per call; with ghs_a = 10 and alpha = 0.1 the first three
\* factors are 0.1, 0.1*10/11 and 0.1*10/12.
C5_GHSHarmonic ==
    /\ [](cls = "GHS" /\ Returned =>
            /\ self.ghs_counter = ncalls + 1
            /\ \A i \in 1..N :
                 /\ Mul(self.step_sizes[i], Add(self.ghs_param, Int2F(ncalls - 1)))
                      = Mul(self.alpha, self.ghs_param)
                 /\ ncalls = 1 => self.step_sizes[i] = self.alpha
                 /\ (self.alpha = Rat(1, 10) /\ self.ghs_param = Int2F(10)) =>
                      /\ ncalls = 1 => self.step_sizes[i] = Rat(1, 10)
                      /\ ncalls = 2 => self.step_sizes[i] = Rat(1, 11)
                      /\ ncalls = 3 => self.step_sizes[i] = Rat(1, 12))
    /\ [][(cls = "GHS" /\ RescaleStep) =>
            /\ self'.ghs_counter = self.ghs_counter + 1
            /\ \A i \in 1..N : Leq(self'.step_sizes[i], self.step_sizes[i])]_vars

\* The spec's scenario: shape (3,), ghs_a = 10, alpha = 0.1, the third call
\* with descent_direction [1,1,1] in all three.
C5_Witness ==
    /\ cls = "GHS" /\ Returned /\ ncalls = 3
    /\ self.alpha = Rat(1, 10) /\ self.ghs_param = Int2F(10)
    /\ gradients = <<Ones(3), Ones(3), Ones(3)>>
    /\ ret = Full(3, Rat(1, 12))

\* C7: RProp -- after each rescale_update a component i with
\* last_update[i] * delta * traces[i] <= 0 has step_sizes[i] = eta_low, every
\* other component has eta_high, and the array returned is
\* step_sizes * descent_direction, component by component.
C7_RPropSignTest ==
    (cls = "RProp" /\ Returned) =>
        \A i \in 1..N :
            /\ IF Leq(Mul(Mul(self.last_update[i], call.delta), self.traces[i]), Zero)
               THEN self.step_sizes[i] = self.eta_low
               ELSE self.step_sizes[i] = self.eta_high
            /\ ret[i] = Mul(self.step_sizes[i], call.descent_direction[i])

\* A call with nonzero delta, traces and direction whose component got eta_low.
C7_Witness ==
    /\ cls = "RProp" /\ Returned
    /\ ~IsZero(call.delta) /\ ~IsZero(self.traces[1])
    /\ ~IsZero(call.descent_direction[1])
    /\ self.step_sizes[1] = self.eta_low
    /\ self.eta_low # self.eta_high /\ self.eta_low # self.alpha

\* C10: the fixed strategy -- every rescale_update returns
\* alpha * descent_direction (alpha as init_stepsize found it) and leaves the
\* strategy's state as it was: step_sizes, all alpha, is the same before and
\* after; alpha = 0.1 and descent_direction [1,2,3] give [0.1,0.2,0.3].
C10_FixedPure ==
    /\ [](cls = "AdaptiveStepSize" /\ Returned =>
            /\ self.step_sizes = Full(N, self.alpha)
            /\ \A i \in 1..N : ret[i] = Mul(self.alpha, call.descent_direction[i])
            /\ (self.alpha = Rat(1, 10)
                  /\ call.descent_direction = <<One, Int2F(2), Int2F(3)>>) =>
                 ret = <<Rat(1, 10), Rat(1, 5), Rat(3, 10)>>)
    /\ [][(cls = "AdaptiveStepSize" /\ RescaleStep) => self' = self]_vars

C10_Witness ==
    /\ cls = "AdaptiveStepSize" /\ Returned /\ ncalls >= 2
    /\ self.alpha = Rat(1, 10)
    /\ call.descent_direction = <<One, Int2F(2), Int2F(3)>>
    /\ ret = <<Rat(1, 10), Rat(1, 5), Rat(3, 10)>>

\* C6: AlphaBounds -- init_stepsize sets alpha to 1.0; each rescale_update
\* leaves alpha = min(alpha before, 1/|dot(traces, gamma*phi_tp - phi_t)|), so
\* alpha never grows and never exceeds 1.0; every component of step_sizes
\* equals alpha.
C6_AlphaBoundsMin ==
    [][/\ (cls = "AlphaBounds" /\ InitStep) =>
            /\ self'.alpha = One
            /\ self'.step_sizes = Full(Len(self.weights), One)
       /\ (cls = "AlphaBounds" /\ RescaleStep) =>
            \A denomTerm \in {Dot(self.traces,
                                   [i \in 1..N |-> Sub(Mul(self.gamma, call'.phi_tp[i]),
                                                       call'.phi_t[i])])} :
              \A bound \in {Div(One, FAbs(denomTerm))} :
                /\ self'.alpha = (IF Less(bound, self.alpha) THEN bound ELSE self.alpha)
                /\ Leq(self'.alpha, self.alpha)
                /\ Leq(self'.alpha, One)
                /\ self'.step_sizes = Full(N, self'.alpha)]_vars

\* alpha came down below 1/2 in an earlier call, and the last call, whose
\* bound is larger, kept it.
C6_Witness ==
    /\ cls = "AlphaBounds" /\ Returned /\ ncalls >= 2
    /\ Less(self.alpha, Rat(1, 2))
    /\ Less(self.alpha,
            Div(One, FAbs(AlphaBounds_denomTerm(self, call.phi_t, call.phi_tp))))
    /\ self.step_sizes = Full(N, self.alpha)

\* C8: for every strategy, init_stepsize followed at once by one
\* rescale_update whose descent_direction is all zeros returns an all-zero
\* array of descent_direction's shape, zero denominators included.
C8_ZeroDirection ==
    (Returned /\ ncalls = 1 /\ call.descent_direction = Zeros(N)) =>
        ret = Zeros(Len(call.descent_direction))

\* The first AlphaBounds call, its denominator zero, with a zero direction.
C8_Witness ==
    /\ cls = "AlphaBounds" /\ Returned /\ ncalls = 1
    /\ call.descent_direction = Zeros(N)
    /\ IsZero(AlphaBounds_denomTerm(self, call.phi_t, call.phi_tp))
    /\ ret = Zeros(N)

\* C2: every strategy leaves step_sizes finite after each rescale_update of
\* any call sequence: no component is NaN or +/-Inf, zero denominators
\* included.
C2_StepSizesFinite ==
    Returned => \A i \in 1..N : IsFinite(self.step_sizes[i])

\* C3: AdagradDiagonal -- the first rescale_update leaves every component of
\* step_sizes at alpha; a component that gets the same nonzero gradient g at
\* every call has step alpha / |g| from the second call on, so from then on
\* its step never grows from one call to the next; the step of the second call
\* is above that of the first when |g| < 1.
C3_SameGradient(i, grads) ==
    /\ ~IsZero(grads[1][i]) /\ IsFinite(grads[1][i])
    /\ \A j \in 1..Len(grads) : grads[j][i] = grads[1][i]

C3_AdagradDiagonalRepeated ==
    [][(cls = "AdagradDiagonal" /\ RescaleStep) =>
          /\ ncalls' = 1 => self'.step_sizes = Full(N, self.alpha)
          /\ \A i \in 1..N :
               (ncalls' >= 2 /\ C3_SameGradient(i, gradients')) =>
                   /\ self'.step_sizes[i] = Div(self.alpha, FAbs(gradients'[1][i]))
                   /\ ncalls' >= 3 => Leq(self'.step_sizes[i], self.step_sizes[i])
                   /\ (ncalls' = 2 /\ Less(FAbs(gradients'[1][i]), One)) =>
                          Less(self.step_sizes[i], self'.step_sizes[i])]_vars

\* C3 as stated: the step of a component with the same nonzero gradient at
\* every call never grows from any call to the next, the first included.
C3_AdagradDiagonalShrinks ==
    [][(cls = "AdagradDiagonal" /\ RescaleStep) =>
          /\ ncalls' = 1 => self'.step_sizes = Full(N, self.alpha)
          /\ \A i \in 1..N :
               (ncalls' >= 2 /\ C3_SameGradient(i, gradients')) =>
                   Leq(self'.step_sizes[i], self.step_sizes[i])]_vars

\* Three calls with gradient 1/2 under alpha = 1/10: the step is 1/5.
C3_Witness ==
    /\ cls = "AdagradDiagonal" /\ Returned /\ ncalls = 3
    /\ self.alpha = Rat(1, 10)
    /\ C3_SameGradient(1, gradients) /\ gradients[1][1] = Rat(1, 2)
    /\ self.step_sizes[1] = Rat(1, 5)

\* C4: no strategy's init_stepsize or rescale_update writes weights, traces
\* or gamma; alpha is written by McClains, STC and AlphaBounds, which keep
\* their running step in it, and by no other strategy.
C4_AlphaWriters == {"McClains", "STC", "AlphaBounds"}

C4_AgentStateKept ==
    [][(InitStep \/ RescaleStep) =>
          /\ self'.weights = self.weights
          /\ self'.traces = self.traces
          /\ self'.gamma = self.gamma
          /\ cls \notin C4_AlphaWriters => self'.alpha = self.alpha]_vars

\* C4 as stated: weights, traces, gamma and alpha all keep the values the
\* base agent gave them, under every strategy.
C4_AgentStateUntouched ==
    [][(InitStep \/ RescaleStep) =>
          /\ self'.weights = self.weights
          /\ self'.traces = self.traces
          /\ self'.gamma = self.gamma
          /\ self'.alpha = self.alpha]_vars

\* InvMaxEigen has converged on nonzero weights: it read weights, perturbed
\* them in a copy and set its step from the estimate.
C4_Witness ==
    /\ cls = "InvMaxEigen" /\ Returned
    /\ self.weights = Ones(N)
    /\ self.step_sizes # Full(N, self.alpha)

\* C9: randomize_parameters of the composed agent calls the base agent's
\* randomize_parameters first and the strategy's second, with the same
\* overrides, and returns the base agent's list followed by the strategy's;
\* constructing the composed agent runs only the base agent's constructor;
\* its name is "Adaptive (" + strategy name + ") " + agent name.
C9_Composition ==
    /\ pc # "randomized" => calls = << [fn |-> "agent_class.__init__"] >>
    /\ pc = "randomized" =>
         /\ Len(calls) = 2
         /\ calls[1].fn = "agent_class.randomize_parameters"
         /\ calls[2].fn = "stepsize_class.randomize_parameters"
         /\ calls[1].args = call.args /\ calls[2].args = call.args
         /\ ret = calls[1].ret \o calls[2].ret
         /\ Len(ret) = Len(calls[1].ret) + Len(calls[2].ret)
         /\ calls[1].ret = <<self.alpha, self.gamma>>
    /\ AdaptiveAgent.bases = <<cls, "sarsa_lambda">>
    /\ cls = "AdaptiveStepSize" => AdaptiveAgent.name = "Adaptive (Fixed StepSize) Sarsa"
    /\ cls = "GHS" => AdaptiveAgent.name = "Adaptive (GHS) Sarsa"
    /\ cls = "AlphaBounds" => AdaptiveAgent.name = "Adaptive (AlphaBound) Sarsa"
    /\ cls = "AlmeidaAdaptive" => AdaptiveAgent.name = "Adaptive (Almeida) Sarsa"
    /\ cls \notin {"AdaptiveStepSize", "AlphaBounds", "AlmeidaAdaptive"} =>
         AdaptiveAgent.name = "Adaptive (" \o cls \o ") Sarsa"

\* RProp randomized with rprop_eta_high fixed at 2: four values, the agent's
\* two first, then eta_low drawn below eta_high, then eta_high.
C9_Witness ==
    /\ pc = "randomized" /\ cls = "RProp"
    /\ call.args = [rprop_eta_high |-> Int2F(2)]
    /\ Len(ret) = 4
    /\ ret[1] = self.alpha /\ ret[2] = self.gamma
    /\ Less(ret[3], ret[4]) /\ ret[4] = Int2F(2)

\* C11: RProp -- init_stepsize sets last_update to all zeros and no
\* rescale_update changes it: in every reachable state last_update is all
\* zeros, so after every rescale_update the test
\* last_update * delta * traces <= 0 holds for every component and every
\* component of step_sizes is eta_low, never eta_high, whatever delta and
\* traces are.
C11_RPropAlwaysLow ==
    (cls = "RProp" /\ Initialized) =>
        /\ self.last_update = Zeros(N)
        /\ Returned =>
             \A i \in 1..N :
                 /\ Leq(Mul(Mul(self.last_update[i], call.delta), self.traces[i]), Zero)
                 /\ self.step_sizes[i] = self.eta_low
                 /\ self.eta_low # self.eta_high => self.step_sizes[i] # self.eta_high

\* The third RProp call on two components, delta and both traces nonzero,
\* eta_low = 1/2 and eta_high = 2: both steps are 1/2.
C11_Witness ==
    /\ cls = "RProp" /\ Returned /\ ncalls = 3 /\ N = 2
    /\ ~IsZero(call.delta)
    /\ \A i \in 1..N : ~IsZero(self.traces[i])
    /\ self.eta_low = Rat(1, 2) /\ self.eta_high = Int2F(2)
    /\ self.last_update = Zeros(N)
    /\ self.step_sizes = Full(N, Rat(1, 2))

====
